---------------------------- MODULE Spec2Model ----------------------------
(***************************************************************************)
(* Model of ENG_APP.py: a Streamlit script that loads seven pre-fitted     *)
(* artifacts once (st.cache_resource), reads five features from sidebar    *)
(* widgets, and on "Predict" runs the pipeline                             *)
(*   3 quantile normalizers, 2 Box-Cox normalizers -> table -> predictor   *)
(*   -> inverse quantile transform -> result                               *)
(* inside one try/except, then renders three SHAP images and a footer.     *)
(*                                                                         *)
(* One behaviour of the model is one server process: a sequence of script  *)
(* runs (Streamlit reruns the whole script on every interaction) sharing   *)
(* the st.cache_resource store.                                            *)
(*                                                                         *)
(* Numbers.  A float is a record: Rat(n, d) for the rational n/d (d > 0),  *)
(* NaN, NegInf, or a symbolic term for a value whose digits depend on an   *)
(* opaque fitted artifact (a quantile transform, the stacked regressor) or *)
(* on a transcendental function (ln).  A symbolic term names the artifact  *)
(* and the argument it was applied to, so two terms are equal exactly when *)
(* the same artifact was applied to the same argument.  Box-Cox exponents  *)
(* are small integers standing for the fitted reals.                       *)
(***************************************************************************)
EXTENDS Integers, Sequences, FiniteSets

VARIABLES
    cache,        \* st.cache_resource entry of load_models: None or the dict
    files,        \* the artifacts whose file joblib.load last found on disk
    pc,           \* position of the script run
    models,       \* line 72
    inputs,       \* lines 76-80: LCD, Vf, GSA, Density, Ktoluene
    predict_btn,  \* line 81
    lcd_q, gsa_q, density_q, vf_bc, ktol_bc,   \* lines 86-90
    df_trans,     \* line 92
    X_user,       \* line 103
    pred_trans,   \* line 104
    pred_orig,    \* line 105
    exc,          \* the exception in flight or handled in this run
    shap_i,       \* index of the for loop of line 125
    out,          \* the elements this run has rendered, in order
    prev          \* an invocation of an earlier run: its RawFeatureSet and outcome

vars == << cache, files, pc, models, inputs, predict_btn, lcd_q, gsa_q,
           density_q, vf_bc, ktol_bc, df_trans, X_user, pred_trans,
           pred_orig, exc, shap_i, out, prev >>

locals == << lcd_q, gsa_q, density_q, vf_bc, ktol_bc, df_trans, X_user,
             pred_trans, pred_orig >>

----------------------------------------------------------------------------
(* Values *)

None == [tag |-> "None"]

Rat(n, d) == [tag |-> "num", n |-> n, d |-> d]

NaN == [tag |-> "nan"]

NegInf == [tag |-> "-inf"]

IsFinite(v) == v.tag \notin {"nan", "-inf", "None"}

Ok(v) == [ok |-> TRUE, val |-> v, exc |-> None]

Raise(type, msg) ==
    [ok |-> FALSE, val |-> None,
     exc |-> [tag |-> "exc", type |-> type, msg |-> msg]]

RECURSIVE Pow(_, _)
Pow(b, e) == IF e = 0 THEN 1 ELSE b * Pow(b, e - 1)

Abs(i) == IF i < 0 THEN -i ELSE i

----------------------------------------------------------------------------
(* Artifacts on disk and loaded *)

ArtifactKeys ==
    << "stack", "qt_lcd", "qt_gsa", "qt_density", "lambda_kt", "lambda_vf",
       "qt_TSN" >>

ArtifactFile ==
    [stack |-> "stacking_model.pkl", qt_lcd |-> "qt_lcd.pkl",
     qt_gsa |-> "qt_GSA.pkl", qt_density |-> "qt_Density.pkl",
     lambda_kt |-> "lambda_Ktoluene.pkl", lambda_vf |-> "lambda_vf.pkl",
     qt_TSN |-> "qt_TSN.pkl"]

Absent == [tag |-> "absent"]

\* A pickled QuantileTransformer: the file it came from identifies the fit;
\* an unfitted one raises NotFittedError on transform / inverse_transform.
QuantileTransformers(file) ==
    { [tag |-> "qt", file |-> file, fitted |-> b] : b \in BOOLEAN }

\* A pickled StackingRegressor: n_features_in_ is the number of columns it
\* was trained on.
StackingModels ==
    { [tag |-> "stack", file |-> "stacking_model.pkl", n_features_in |-> n] :
        n \in {4, 5} }

\* A pickled Box-Cox exponent.
Lambdas == { [tag |-> "lambda", value |-> l] : l \in {0, 1} }

\* Every state of the seven files: each absent or holding one of its contents.
DiskStates ==
    [stack : StackingModels \cup {Absent},
     qt_lcd : QuantileTransformers("qt_lcd.pkl") \cup {Absent},
     qt_gsa : QuantileTransformers("qt_GSA.pkl") \cup {Absent},
     qt_density : QuantileTransformers("qt_Density.pkl") \cup {Absent},
     lambda_kt : Lambdas \cup {Absent},
     lambda_vf : Lambdas \cup {Absent},
     qt_TSN : QuantileTransformers("qt_TSN.pkl") \cup {Absent}]

\* The artifacts whose file is present.
Present(disk) ==
    { ArtifactKeys[i] : i \in { j \in 1..Len(ArtifactKeys) : disk[ArtifactKeys[j]] # Absent } }

\* load_models with the TSN transform created empty when its file is absent.
load_models_default_TSN(disk) ==
    LET patched ==
            IF disk.qt_TSN = Absent
            THEN [disk EXCEPT !.qt_TSN =
                     [tag |-> "qt", file |-> "qt_TSN.pkl", fitted |-> FALSE]]
            ELSE disk
        missing == { i \in 1..Len(ArtifactKeys) : patched[ArtifactKeys[i]] = Absent }
        first == CHOOSE i \in missing : \A j \in missing : i <= j
    IN  IF missing = {}
        THEN Ok(patched)
        ELSE Raise("FileNotFoundError", ArtifactFile[ArtifactKeys[first]])

\* joblib.load of the seven files in the order of the dict literal: the first
\* absent file raises FileNotFoundError and nothing is returned.
load_models(disk) ==
    LET missing == { i \in 1..Len(ArtifactKeys) : disk[ArtifactKeys[i]] = Absent }
        first == CHOOSE i \in missing : \A j \in missing : i <= j
    IN  IF missing = {}
        THEN Ok(disk)
        ELSE Raise("FileNotFoundError", ArtifactFile[ArtifactKeys[first]])

----------------------------------------------------------------------------
(* The library calls of the pipeline *)

\* QuantileTransformer.transform([[x]])[0, 0]
transform(qt, x) ==
    IF qt.fitted
    THEN Ok([tag |-> "quantile", art |-> qt.file, x |-> x])
    ELSE Raise("NotFittedError", qt.file)

\* QuantileTransformer.inverse_transform([[y]])[0, 0]
inverse_transform(qt, y) ==
    IF qt.fitted
    THEN Ok([tag |-> "inverse_quantile", art |-> qt.file, y |-> y])
    ELSE Raise("NotFittedError", qt.file)

\* log of a rational: nan below zero, -inf at zero.
Log(x) ==
    IF x.n < 0 THEN NaN
    ELSE IF x.n = 0 THEN NegInf
    ELSE [tag |-> "ln", x |-> x]

\* scipy.special.boxcox: log(x) when lmbda = 0, else (x^lmbda - 1) / lmbda
\* computed as expm1(lmbda * log(x)) / lmbda, so a negative x gives nan and
\* x = 0 gives -1/lmbda (lmbda > 0) or -inf (lmbda < 0).  No input is refused.
special_boxcox(x, lmbda) ==
    IF lmbda = 0 THEN Log(x)
    ELSE IF x.n < 0 THEN NaN
    ELSE IF x.n = 0 THEN (IF lmbda > 0 THEN Rat(-1, lmbda) ELSE NegInf)
    ELSE IF lmbda > 0
         THEN Rat(Pow(x.n, lmbda) - Pow(x.d, lmbda), lmbda * Pow(x.d, lmbda))
         ELSE Rat(Pow(x.n, Abs(lmbda)) - Pow(x.d, Abs(lmbda)),
                  Abs(lmbda) * Pow(x.n, Abs(lmbda)))

\* scipy.stats.boxcox(np.array([x]), lmbda=l)[0]: with lmbda given it is the
\* single transformation, returned before any check of the data.  (A scipy
\* that checked the data first would refuse every one-element array as
\* constant, and no invocation of this script could then complete.)
boxcox(x, lmbda) == Ok(special_boxcox(x, lmbda.value))

\* StackingRegressor.predict(X)[0]: input validation refuses a row whose
\* length is not n_features_in_ or that holds NaN or infinity.
predict(stack, X) ==
    IF Len(X) # stack.n_features_in
    THEN Raise("ValueError", "n_features")
    ELSE IF \E i \in 1..Len(X) : ~IsFinite(X[i])
    THEN Raise("ValueError", "non-finite")
    ELSE Ok([tag |-> "predict", model |-> stack.file, X |-> X])

----------------------------------------------------------------------------
(* Sidebar inputs *)

Features == << "LCD", "Vf", "GSA", "Density", "Ktoluene" >>

\* min_value, value and max_value of the five number_input widgets.
MinRaw ==
    [LCD |-> Rat(603338, 100000), Vf |-> Rat(2574, 10000),
     GSA |-> Rat(204912, 1000), Density |-> Rat(237838, 1000000),
     Ktoluene |-> Rat(27383, 1000000000)]

DefaultRaw ==
    [LCD |-> Rat(833, 100), Vf |-> Rat(5726, 10000),
     GSA |-> Rat(701884, 1000), Density |-> Rat(151454, 100000),
     Ktoluene |-> Rat(13545, 1000000)]

MaxRaw ==
    [LCD |-> Rat(391106, 10000), Vf |-> Rat(9182, 10000),
     GSA |-> Rat(706142, 100), Density |-> Rat(286501, 100000),
     Ktoluene |-> Rat(285274, 10)]

\* What the five number_input widgets return: values in [min_value, max_value].
WidgetRaws == { MinRaw, DefaultRaw, MaxRaw }

\* RawFeatureSets handed to the pipeline without the widgets' bounds: a
\* Box-Cox feature at zero or below it.
ZeroVfRaw == [DefaultRaw EXCEPT !.Vf = Rat(0, 1)]

NegativeKtolueneRaw == [DefaultRaw EXCEPT !.Ktoluene = Rat(-13545, 1000000)]

UncheckedRaws == WidgetRaws \cup { ZeroVfRaw, NegativeKtolueneRaw }

NoRaw ==
    [LCD |-> None, Vf |-> None, GSA |-> None, Density |-> None,
     Ktoluene |-> None]

----------------------------------------------------------------------------
(* Rendered elements *)

shap_sections ==
    << [title |-> "1. Base Learners SHAP", desc |-> "base models",
        path |-> "summary_plot.png"],
       [title |-> "2. Meta Learner SHAP", desc |-> "meta-learner",
        path |-> "meta_learner.png"],
       [title |-> "3. Overall SHAP", desc |-> "whole stacking model",
        path |-> "overall.png"] >>

Table(df) == [kind |-> "dataframe", df |-> df]

ResultTransformed(v) == [kind |-> "write", label |-> "Transformed TSN", value |-> v]

ResultOriginal(v) == [kind |-> "success", label |-> "Original TSN", value |-> v]

Error(e) == [kind |-> "error", label |-> "Prediction error", value |-> e]

Subheader(t) == [kind |-> "subheader", label |-> t, value |-> None]

Markdown(t) == [kind |-> "markdown", label |-> t, value |-> None]

Picture(path) == [kind |-> "image", label |-> path, value |-> None]

Warning(path) == [kind |-> "warning", label |-> path, value |-> None]

Footer == Markdown("About This App")

----------------------------------------------------------------------------
(* The script *)

Init ==
    /\ cache = None
    /\ files = {}
    /\ pc = "idle"
    /\ models = None
    /\ inputs = NoRaw
    /\ predict_btn = FALSE
    /\ lcd_q = None /\ gsa_q = None /\ density_q = None
    /\ vf_bc = None /\ ktol_bc = None
    /\ df_trans = << >>
    /\ X_user = << >>
    /\ pred_trans = None
    /\ pred_orig = None
    /\ exc = None
    /\ shap_i = 0
    /\ out = << >>
    /\ prev = None

\* How the try statement of lines 85-114 ended in this run.
Outcome ==
    IF exc # None
    THEN [state |-> "Failed", error |-> exc, transformed |-> None,
          original |-> None]
    ELSE [state |-> "Complete", error |-> None, transformed |-> pred_trans,
          original |-> pred_orig]

\* The invocation of the run that is being replaced may be the one kept for
\* comparison with later ones.
Remember ==
    \/ prev' = prev
    \/ /\ pc = "done"
       /\ predict_btn
       /\ prev' = [tag |-> "invocation", raw |-> inputs, outcome |-> Outcome]

\* Lines 1-57: a rerun starts the script from the top on a cleared page, with
\* a fresh namespace.
ScriptStart ==
    /\ pc \in {"idle", "done", "crashed"}
    /\ pc' = "load"
    /\ models' = None
    /\ inputs' = NoRaw
    /\ predict_btn' = FALSE
    /\ lcd_q' = None /\ gsa_q' = None /\ density_q' = None
    /\ vf_bc' = None /\ ktol_bc' = None
    /\ df_trans' = << >>
    /\ X_user' = << >>
    /\ pred_trans' = None
    /\ pred_orig' = None
    /\ exc' = None
    /\ shap_i' = 0
    /\ out' = << >>
    /\ Remember
    /\ UNCHANGED << cache, files >>

\* LoadModels with load_models() called inside the try statement's reach: a
\* load failure goes to the except clause.
LoadModelsInsideTry ==
    /\ pc = "load"
    /\ IF cache # None
       THEN /\ models' = cache
            /\ pc' = "sidebar"
            /\ UNCHANGED << cache, files, exc >>
       ELSE \E disk \in DiskStates :
              LET r == load_models(disk)
              IN  /\ files' = Present(disk)
                  /\ IF r.ok
                     THEN /\ cache' = r.val
                          /\ models' = r.val
                          /\ pc' = "sidebar"
                          /\ exc' = exc
                     ELSE /\ exc' = r.exc
                          /\ pc' = "except"
                          /\ UNCHANGED << cache, models >>
    /\ UNCHANGED << inputs, predict_btn, locals, shap_i, out, prev >>

\* LoadModels without the st.cache_resource decorator: every run loads the
\* files again.
LoadModelsUncached ==
    /\ pc = "load"
    /\ \E disk \in DiskStates :
         LET r == load_models(disk)
         IN  /\ files' = Present(disk)
             /\ IF r.ok
                THEN /\ cache' = r.val
                     /\ models' = r.val
                     /\ pc' = "sidebar"
                     /\ exc' = exc
                ELSE /\ exc' = r.exc
                     /\ pc' = "crashed"
                     /\ UNCHANGED << cache, models >>
    /\ UNCHANGED << inputs, predict_btn, locals, shap_i, out, prev >>

\* Lines 60-72: models = load_models() under st.cache_resource.  A hit
\* returns the stored dict; a miss runs the function on the files as they
\* are now and stores what it returns; an exception stores nothing, is not
\* caught anywhere and ends the script run.
LoadModels ==
    /\ pc = "load"
    /\ IF cache # None
       THEN /\ models' = cache
            /\ pc' = "sidebar"
            /\ UNCHANGED << cache, files, exc >>
       ELSE \E disk \in DiskStates :
              LET r == load_models(disk)
              IN  /\ files' = Present(disk)
                  /\ IF r.ok
                     THEN /\ cache' = r.val
                          /\ models' = r.val
                          /\ pc' = "sidebar"
                          /\ exc' = exc
                     ELSE /\ exc' = r.exc
                          /\ pc' = "crashed"
                          /\ UNCHANGED << cache, models >>
    /\ UNCHANGED << inputs, predict_btn, locals, shap_i, out, prev >>

\* Lines 75-84: the widgets return their values; without a press of Predict
\* the prediction block is skipped.
Sidebar(raws) ==
    /\ pc = "sidebar"
    /\ \E r \in raws, b \in BOOLEAN :
         /\ inputs' = r
         /\ predict_btn' = b
         /\ pc' = IF b THEN "lcd" ELSE "shap"
    /\ UNCHANGED << cache, files, models, locals, exc, shap_i, out, prev >>

\* A step of the try block that calls r: its value is bound, or the exception
\* transfers control to the except clause.
Bind(r, next) ==
    /\ pc' = IF r.ok THEN next ELSE "except"
    /\ exc' = IF r.ok THEN exc ELSE r.exc

\* Line 86
StepLCD ==
    /\ pc = "lcd"
    /\ LET r == transform(models.qt_lcd, inputs.LCD)
       IN  /\ Bind(r, "gsa")
           /\ lcd_q' = r.val
    /\ UNCHANGED << cache, files, models, inputs, predict_btn, gsa_q,
                    density_q, vf_bc, ktol_bc, df_trans, X_user, pred_trans,
                    pred_orig, shap_i, out, prev >>

\* Line 87
StepGSA ==
    /\ pc = "gsa"
    /\ LET r == transform(models.qt_gsa, inputs.GSA)
       IN  /\ Bind(r, "density")
           /\ gsa_q' = r.val
    /\ UNCHANGED << cache, files, models, inputs, predict_btn, lcd_q,
                    density_q, vf_bc, ktol_bc, df_trans, X_user, pred_trans,
                    pred_orig, shap_i, out, prev >>

\* Line 88
StepDensity ==
    /\ pc = "density"
    /\ LET r == transform(models.qt_density, inputs.Density)
       IN  /\ Bind(r, "vf")
           /\ density_q' = r.val
    /\ UNCHANGED << cache, files, models, inputs, predict_btn, lcd_q, gsa_q,
                    vf_bc, ktol_bc, df_trans, X_user, pred_trans, pred_orig,
                    shap_i, out, prev >>

\* Line 89
StepVf ==
    /\ pc = "vf"
    /\ LET r == boxcox(inputs.Vf, models.lambda_vf)
       IN  /\ Bind(r, "ktoluene")
           /\ vf_bc' = r.val
    /\ UNCHANGED << cache, files, models, inputs, predict_btn, lcd_q, gsa_q,
                    density_q, ktol_bc, df_trans, X_user, pred_trans,
                    pred_orig, shap_i, out, prev >>

\* Line 90
StepKtoluene ==
    /\ pc = "ktoluene"
    /\ LET r == boxcox(inputs.Ktoluene, models.lambda_kt)
       IN  /\ Bind(r, "table")
           /\ ktol_bc' = r.val
    /\ UNCHANGED << cache, files, models, inputs, predict_btn, lcd_q, gsa_q,
                    density_q, vf_bc, df_trans, X_user, pred_trans, pred_orig,
                    shap_i, out, prev >>

\* Lines 92-96: the three columns of df_trans, row by row.
DataFrame(feature, original, transformed) ==
    [i \in 1..Len(feature) |->
        [Feature |-> feature[i], Original |-> original[i],
         Transformed |-> transformed[i]]]

\* Line 103: df_trans["Transformed Value"].to_numpy().reshape(1, -1)
TransformedColumn(df) == [i \in 1..Len(df) |-> df[i].Transformed]

\* StepTable with the transformed column listed in the order the normalizers
\* were computed.
StepTableComputationOrder ==
    /\ pc = "table"
    /\ df_trans' =
         DataFrame(Features,
                   << inputs.LCD, inputs.Vf, inputs.GSA, inputs.Density,
                      inputs.Ktoluene >>,
                   << lcd_q, gsa_q, density_q, vf_bc, ktol_bc >>)
    /\ out' = Append(out, Table(df_trans'))
    /\ X_user' = TransformedColumn(df_trans')
    /\ pc' = "predict"
    /\ UNCHANGED << cache, files, models, inputs, predict_btn, lcd_q, gsa_q,
                    density_q, vf_bc, ktol_bc, pred_trans, pred_orig, exc,
                    shap_i, prev >>

\* StepTable without the st.dataframe call.
StepTableNotRendered ==
    /\ pc = "table"
    /\ df_trans' =
         DataFrame(Features,
                   << inputs.LCD, inputs.Vf, inputs.GSA, inputs.Density,
                      inputs.Ktoluene >>,
                   << lcd_q, vf_bc, gsa_q, density_q, ktol_bc >>)
    /\ X_user' = TransformedColumn(df_trans')
    /\ pc' = "predict"
    /\ UNCHANGED << cache, files, models, inputs, predict_btn, lcd_q, gsa_q,
                    density_q, vf_bc, ktol_bc, pred_trans, pred_orig, exc,
                    shap_i, out, prev >>

\* Lines 92-103: build df_trans, render it, take its transformed column.
StepTable ==
    /\ pc = "table"
    /\ df_trans' =
         DataFrame(Features,
                   << inputs.LCD, inputs.Vf, inputs.GSA, inputs.Density,
                      inputs.Ktoluene >>,
                   << lcd_q, vf_bc, gsa_q, density_q, ktol_bc >>)
    /\ out' = Append(out, Table(df_trans'))
    /\ X_user' = TransformedColumn(df_trans')
    /\ pc' = "predict"
    /\ UNCHANGED << cache, files, models, inputs, predict_btn, lcd_q, gsa_q,
                    density_q, vf_bc, ktol_bc, pred_trans, pred_orig, exc,
                    shap_i, prev >>

\* Line 104
StepPredict ==
    /\ pc = "predict"
    /\ LET r == predict(models.stack, X_user)
       IN  /\ Bind(r, "denorm")
           /\ pred_trans' = r.val
    /\ UNCHANGED << cache, files, models, inputs, predict_btn, lcd_q, gsa_q,
                    density_q, vf_bc, ktol_bc, df_trans, X_user, pred_orig,
                    shap_i, out, prev >>

\* StepDenorm with the transformed value written before the inverse
\* transform is taken.
StepDenormAfterWrite ==
    /\ pc = "denorm"
    /\ out' = Append(out, ResultTransformed(pred_trans))
    /\ LET r == inverse_transform(models.qt_TSN, pred_trans)
       IN  /\ Bind(r, "result")
           /\ pred_orig' = r.val
    /\ UNCHANGED << cache, files, models, inputs, predict_btn, lcd_q, gsa_q,
                    density_q, vf_bc, ktol_bc, df_trans, X_user, pred_trans,
                    shap_i, prev >>

\* StepDenorm with the TSN transform read from its file at the call instead
\* of taken from the loaded dict.
StepDenormFromDisk ==
    /\ pc = "denorm"
    /\ \E qt \in QuantileTransformers("qt_TSN.pkl") :
         LET r == inverse_transform(qt, pred_trans)
         IN  /\ Bind(r, "result")
             /\ pred_orig' = r.val
    /\ UNCHANGED << cache, files, models, inputs, predict_btn, lcd_q, gsa_q,
                    density_q, vf_bc, ktol_bc, df_trans, X_user, pred_trans,
                    shap_i, out, prev >>

\* Line 105
StepDenorm ==
    /\ pc = "denorm"
    /\ LET r == inverse_transform(models.qt_TSN, pred_trans)
       IN  /\ Bind(r, "result")
           /\ pred_orig' = r.val
    /\ UNCHANGED << cache, files, models, inputs, predict_btn, lcd_q, gsa_q,
                    density_q, vf_bc, ktol_bc, df_trans, X_user, pred_trans,
                    shap_i, out, prev >>

\* Lines 107-111: the result card.
StepResult ==
    /\ pc = "result"
    /\ out' = out \o << ResultTransformed(pred_trans), ResultOriginal(pred_orig) >>
    /\ pc' = "shap"
    /\ UNCHANGED << cache, files, models, inputs, predict_btn, locals, exc,
                    shap_i, prev >>

\* ExceptHandler with the clause narrowed to ValueError: anything else
\* leaves the script.
ExceptOnlyValueError ==
    /\ pc = "except"
    /\ IF exc.type = "ValueError"
       THEN /\ out' = Append(out, Error(exc))
            /\ pc' = "shap"
       ELSE /\ out' = out
            /\ pc' = "crashed"
    /\ UNCHANGED << cache, files, models, inputs, predict_btn, locals, exc,
                    shap_i, prev >>

\* Lines 113-114: except Exception as e: st.error(...)
ExceptHandler ==
    /\ pc = "except"
    /\ out' = Append(out, Error(exc))
    /\ pc' = "shap"
    /\ UNCHANGED << cache, files, models, inputs, predict_btn, locals, exc,
                    shap_i, prev >>

\* ShapSection without the try/except around Image.open.
ShapSectionUncaught ==
    /\ pc = "shap"
    /\ shap_i < Len(shap_sections)
    /\ shap_i' = shap_i + 1
    /\ pc' \in {"shap", "crashed"}
    /\ out' = out \o << Subheader(shap_sections[shap_i'].title),
                        Markdown(shap_sections[shap_i'].desc) >>
                 \o (IF pc' = "shap"
                     THEN << Picture(shap_sections[shap_i'].path) >>
                     ELSE << >>)
    /\ UNCHANGED << cache, files, models, inputs, predict_btn, locals, exc,
                    prev >>

\* Lines 116-131: one turn of the for loop: Image.open finds the file or
\* raises FileNotFoundError, which the loop's own except turns into a warning.
\* A file that is there is taken to be an image PIL can open.
ShapSection ==
    /\ pc = "shap"
    /\ shap_i < Len(shap_sections)
    /\ shap_i' = shap_i + 1
    /\ \E found \in BOOLEAN :
         out' = out \o << Subheader(shap_sections[shap_i'].title),
                          Markdown(shap_sections[shap_i'].desc),
                          IF found
                          THEN Picture(shap_sections[shap_i'].path)
                          ELSE Warning(shap_sections[shap_i'].path) >>
    /\ UNCHANGED << cache, files, pc, models, inputs, predict_btn, locals,
                    exc, prev >>

\* Lines 133-139
StepFooter ==
    /\ pc = "shap"
    /\ shap_i = Len(shap_sections)
    /\ out' = Append(out, Footer)
    /\ pc' = "done"
    /\ UNCHANGED << cache, files, models, inputs, predict_btn, locals, exc,
                    shap_i, prev >>

Pipeline ==
    \/ StepLCD \/ StepGSA \/ StepDensity \/ StepVf \/ StepKtoluene
    \/ StepTable \/ StepPredict \/ StepDenorm \/ StepResult \/ ExceptHandler

Next ==
    \/ ScriptStart
    \/ LoadModels
    \/ Sidebar(WidgetRaws)
    \/ Pipeline
    \/ ShapSection
    \/ StepFooter

Spec == Init /\ [][Next]_vars

\* The pipeline as a function of any RawFeatureSet: the same script with the
\* five values not confined to the widgets' ranges.
NextUnchecked ==
    \/ ScriptStart
    \/ LoadModels
    \/ Sidebar(UncheckedRaws)
    \/ Pipeline
    \/ ShapSection
    \/ StepFooter

SpecUnchecked == Init /\ [][NextUnchecked]_vars

----------------------------------------------------------------------------
(* Properties *)

Emitted(kind) == { i \in 1..Len(out) : out[i].kind = kind }

\* The try statement of this run has been entered and left.
InvocationEnded == predict_btn /\ pc \in {"shap", "done"}

\* The run is inside the try statement.
InTry ==
    pc \in {"lcd", "gsa", "density", "vf", "ktoluene", "table", "predict",
            "denorm", "result", "except"}

NoValueReported == Emitted("write") = {} /\ Emitted("success") = {}

Complete ==
    /\ Emitted("error") = {}
    /\ \E i \in 1..Len(out) - 1 :
         /\ Emitted("write") = {i}
         /\ Emitted("success") = {i + 1}
         /\ out[i] = ResultTransformed(pred_trans)
         /\ out[i + 1] = ResultOriginal(pred_orig)

Failed ==
    /\ Cardinality(Emitted("error")) = 1
    /\ NoValueReported

AllNormalizersReturned ==
    /\ lcd_q # None /\ gsa_q # None /\ density_q # None
    /\ vf_bc # None /\ ktol_bc # None

ExpectedTable ==
    << [Feature |-> "LCD", Original |-> inputs.LCD, Transformed |-> lcd_q],
       [Feature |-> "Vf", Original |-> inputs.Vf, Transformed |-> vf_bc],
       [Feature |-> "GSA", Original |-> inputs.GSA, Transformed |-> gsa_q],
       [Feature |-> "Density", Original |-> inputs.Density,
        Transformed |-> density_q],
       [Feature |-> "Ktoluene", Original |-> inputs.Ktoluene,
        Transformed |-> ktol_bc] >>

TableShown ==
    /\ Emitted("dataframe") = {1}
    /\ out[1] = Table(ExpectedTable)

\* C1: every invocation that has left the try statement is in exactly one of
\* Complete (both values written, no error) and Failed (one error, no value);
\* no value is on the page while an exception is in flight; and inside the
\* try statement some step can always be taken.
C1_CompleteXorFailed ==
    /\ InvocationEnded => (Complete /\ exc = None) \/ (Failed /\ exc # None)
    /\ InvocationEnded => ~(Complete /\ Failed)
    /\ pc = "except" => NoValueReported
    /\ InTry => ENABLED Pipeline

\* C1 witness: the predictor returned, the de-normalizer raised, the run
\* finished Failed.
C1_Witness ==
    /\ pc = "done" /\ predict_btn
    /\ pred_trans # None /\ pred_orig = None
    /\ exc # None /\ Failed

\* C2: an exception raised in the try statement yields exactly one error
\* message carrying it, never ends the script run (only a load failure
\* does), and the SHAP sections and the footer follow.
C2_CaughtAtBoundary ==
    /\ pc = "crashed" => models = None /\ ~predict_btn
    /\ (InvocationEnded /\ exc # None) =>
          /\ Cardinality(Emitted("error")) = 1
          /\ \A i \in Emitted("error") : out[i] = Error(exc)
    /\ pc = "except" => ENABLED ExceptHandler
    /\ pc = "shap" => ENABLED (ShapSection \/ StepFooter)
    /\ (pc = "done" /\ predict_btn /\ exc # None) =>
          /\ Cardinality(Emitted("subheader")) = Len(shap_sections)
          /\ out[Len(out)] = Footer

\* C2 witness: the first normalizer raised NotFittedError and the run still
\* reached the footer.
C2_Witness ==
    /\ pc = "done" /\ predict_btn
    /\ exc # None /\ exc.type = "NotFittedError" /\ lcd_q = None
    /\ out[Len(out)] = Footer

\* C3: when the predictor is about to be called, X_user has five entries in
\* the order LCD, Vf, GSA, Density, Ktoluene, each the output of that
\* feature's own artifact applied to that feature's own raw value.
C3_VectorOrder ==
    pc = "predict" =>
        /\ Len(X_user) = Len(Features)
        /\ X_user[1] = [tag |-> "quantile", art |-> "qt_lcd.pkl", x |-> inputs.LCD]
        /\ X_user[2] = special_boxcox(inputs.Vf, models.lambda_vf.value)
        /\ X_user[3] = [tag |-> "quantile", art |-> "qt_GSA.pkl", x |-> inputs.GSA]
        /\ X_user[4] = [tag |-> "quantile", art |-> "qt_Density.pkl",
                        x |-> inputs.Density]
        /\ X_user[5] = special_boxcox(inputs.Ktoluene, models.lambda_kt.value)

\* C3 witness: the predictor is about to be called with two different
\* Box-Cox exponents loaded.
C3_Witness ==
    /\ pc = "predict"
    /\ models.lambda_vf # models.lambda_kt
    /\ X_user[2] # X_user[5]

\* C4: once all five normalizers have returned and the table step has run,
\* the table of the five features with their original and transformed values
\* is the first element on the page, before the predictor is called and
\* whatever the predictor and the de-normalizer do afterwards.
C4_TableShownRegardless ==
    (predict_btn /\ AllNormalizersReturned /\ pc # "table") => TableShown

\* C4 witness: the predictor raised and the table is on the finished page.
C4_Witness ==
    /\ pc = "done" /\ predict_btn
    /\ exc # None /\ exc.type = "ValueError" /\ pred_trans = None
    /\ TableShown

\* load_models has run in this run and did not find the file of key.
NotFoundAtLoad(key) == key \notin files /\ pc \notin {"idle", "load"}

\* load_models has run in this run and found every file but that of key.
OnlyNotFoundAtLoad(key) ==
    /\ files = { ArtifactKeys[i] : i \in 1..Len(ArtifactKeys) } \ {key}
    /\ pc \notin {"idle", "load"}

\* C5 as stated: a run that found the TSN artifact (and no other) absent ends
\* Failed at the de-normalization step, after the table and the predictor
\* call, with no value reported.
C5_FailsAtDenormalization ==
    (OnlyNotFoundAtLoad("qt_TSN") /\ pc \in {"crashed", "done"}) =>
        /\ TableShown
        /\ pred_trans # None
        /\ Failed

\* C5 amended: a run that found the TSN artifact absent stops in load_models
\* with FileNotFoundError, before the sidebar and the try statement: no
\* normalizer, table, predictor or de-normalizer runs, nothing is rendered
\* and no value is reported.
C5_FailsAtLoad ==
    NotFoundAtLoad("qt_TSN") =>
        /\ pc = "crashed"
        /\ exc # None /\ exc.type = "FileNotFoundError"
        /\ models = None /\ cache = None
        /\ ~AllNormalizersReturned /\ lcd_q = None
        /\ df_trans = << >> /\ pred_trans = None /\ pred_orig = None
        /\ out = << >>

\* C5 witness: only the TSN file was missing and the run stopped on it.
C5_Witness ==
    /\ pc = "crashed"
    /\ OnlyNotFoundAtLoad("qt_TSN")
    /\ exc.msg = "qt_TSN.pkl"

NonPositive(x) == x.tag = "num" /\ x.n <= 0

C7_LoadFailureIsFatal ==
    /\ (\E i \in 1..Len(ArtifactKeys) : NotFoundAtLoad(ArtifactKeys[i])) =>
          /\ pc = "crashed"
          /\ Emitted("dataframe") = {} /\ NoValueReported
          /\ Emitted("error") = {}
    /\ (exc # None /\ exc.type = "FileNotFoundError") =>
          pc = "crashed" /\ Emitted("error") = {}

\* C7 witness: the stacking model itself was missing.
C7_Witness ==
    /\ pc = "crashed"
    /\ "stack" \notin files
    /\ exc.msg = "stacking_model.pkl"

\* C8: once loaded, the cached dict never changes, and the models a run uses
\* are that dict, in every step of every run.
C8_ArtifactsImmutable ==
    [][ /\ cache # None => cache' = cache
        /\ models' # None => models' = cache' ]_vars

\* C8 witness: a later run, after an earlier run's invocation failed, has
\* finished another invocation on the loaded artifacts.
C8_Witness ==
    /\ pc = "done" /\ predict_btn /\ cache # None /\ models = cache
    /\ prev # None /\ prev.outcome.state = "Failed"
    /\ prev.raw # inputs

\* C9: an invocation with the RawFeatureSet of an invocation of an earlier
\* run ends as that one did: same state, same values or same error.
C9_SameInputSameOutcome ==
    (InvocationEnded /\ prev # None /\ prev.raw = inputs) =>
        prev.outcome = Outcome

\* C9 witness: an invocation repeating the RawFeatureSet of an earlier run's
\* invocation has completed.
C9_Witness ==
    /\ pc = "done" /\ predict_btn
    /\ prev # None /\ prev.raw = inputs
    /\ Outcome.state = "Complete" /\ pred_orig # None

\* The page of a run that has reached the SHAP part: what the try statement
\* left, then per section its title, its description and its image or
\* warning.
PipelinePart ==
    IF ~predict_btn THEN << >>
    ELSE IF exc = None
    THEN << Table(df_trans), ResultTransformed(pred_trans),
            ResultOriginal(pred_orig) >>
    ELSE (IF df_trans = << >> THEN << >> ELSE << Table(df_trans) >>)
         \o << Error(exc) >>

SectionAt(i) == Len(PipelinePart) + 3 * (i - 1)

\* C10: in every run past the try statement, each section visited so far has
\* its title, description and either its image or a warning naming its path;
\* the elements the try statement left are still the page's head; a run
\* that reached the sections never stops before the footer.
C10_MissingImageIsWarning ==
    /\ pc \in {"shap", "done"} =>
          /\ Len(out) = Len(PipelinePart) + 3 * shap_i
                          + (IF pc = "done" THEN 1 ELSE 0)
          /\ SubSeq(out, 1, Len(PipelinePart)) = PipelinePart
          /\ \A i \in 1..shap_i :
               /\ out[SectionAt(i) + 1] = Subheader(shap_sections[i].title)
               /\ out[SectionAt(i) + 2] = Markdown(shap_sections[i].desc)
               /\ out[SectionAt(i) + 3] \in
                    { Picture(shap_sections[i].path),
                      Warning(shap_sections[i].path) }
    /\ pc = "done" =>
          /\ shap_i = Len(shap_sections)
          /\ out[Len(out)] = Footer
    /\ pc = "crashed" => shap_i = 0 /\ out = << >>
    /\ pc = "shap" => ENABLED (ShapSection \/ StepFooter)

\* C10 witness: a Complete invocation followed by a missing first image, a
\* found second one and a missing third one, and the footer.
C10_Witness ==
    /\ pc = "done" /\ predict_btn /\ exc = None
    /\ out[SectionAt(1) + 3] = Warning(shap_sections[1].path)
    /\ out[SectionAt(2) + 3] = Picture(shap_sections[2].path)
    /\ out[SectionAt(3) + 3] = Warning(shap_sections[3].path)
    /\ out[Len(out)] = Footer

=============================================================================
